---- MODULE Spec2Model ----
(***************************************************************************)
(* retrix: the per-room message cache (MessageBuffer, src/src/ui.rs) and   *)
(* the update function of the logged-in view (MainView::update) that       *)
(* feeds it from the live sync stream and from backward pagination.        *)
(*                                                                         *)
(* Two specifications share the definitions of the buffer operations:      *)
(*   SpecBuf  one MessageBuffer driven by arbitrary push/append calls;     *)
(*   Spec     MainView::update, one action per Message variant handled.    *)
(***************************************************************************)
EXTENDS Integers, Sequences, FiniteSets, Bags, TLC

\* ------------------------------------------------------------------------
\* Bounds of the model
\* ------------------------------------------------------------------------
\* Greatest origin_server_ts an event carries (timestamps are 1..MaxTs;
\* 0 stands for SystemTime::UNIX_EPOCH).
MaxTs == 2
\* Greatest number of events a buffer holds before an operation is applied.
MaxLen == 3
\* Greatest length of the vector handed to append.
MaxBatch == 2
\* Greatest number of commands (futures handed to the runtime) in flight.
MaxInFlight == 2

None == "none"

\* Event ids that are delivered to the client.
EventIds == {"a", "b"}
\* Ids an m.replace relation or a redaction may name: a delivered event or
\* an event the client never receives.
TargetIds == EventIds \cup {"lost"}

Timestamps == 1..MaxTs
UNIX_EPOCH == 0

\* The variants of AnyRoomEvent the buffer tells apart:
\*   "message"    AnyMessageEvent::RoomMessage without a Replacement relation
\*   "edit"       AnyMessageEvent::RoomMessage, relates_to = Replacement(target)
\*   "redaction"  AnyMessageEvent::RoomRedaction, redacts = target
\*   "create"     AnyStateEvent::RoomCreate
BufferKinds == {"message", "edit", "redaction", "create"}

\* The immutable content an event id stands for.
Contents ==
    [ts : Timestamps, kind : {"message", "create"}, target : {None}]
      \cup [ts : Timestamps, kind : {"edit", "redaction"}, target : TargetIds]

VARIABLES
    catalog,    \* SpecBuf: the events that exist, event id -> content
    buffer,     \* SpecBuf: the MessageBuffer under test
    last,       \* SpecBuf: the last call made, its argument and the buffer before it
    screen,     \* Retrix: "Prompt", "AwaitLogin" or "LoggedIn"
    rooms,      \* MainView::rooms, room id -> RoomEntry
    selected,   \* MainView::selected
    error,      \* MainView::error / PromptView::error
    sync_token, \* MainView::sync_token
    joined,     \* the rooms client.get_joined_room() finds
    cmds,       \* the commands in flight, a bag
    feed,       \* the items the sync stream has yet to deliver
    panicked,   \* update was aborted by an unwrap() on None
    answered,   \* history, for the rooms of its domain: whether a pagination
                \* response was handled for the room, the latest end cursor
                \* a response carried, the selection when the last response
                \* was handled
    sas,        \* MainView::sas, the verification flow or None
    settings_view \* MainView::settings_view: None, or the settings view
                \* with its display name input "blank" or "named"

bufvars == <<catalog, buffer, last>>
appvars ==
    <<screen, rooms, selected, error, sync_token, joined, cmds, feed, panicked,
      answered, sas, settings_view>>
vars == <<bufvars, appvars>>

\* ------------------------------------------------------------------------
\* MessageBuffer
\* ------------------------------------------------------------------------
\* AnyRoomEventExt::event_id / origin_server_ts read the fields id / ts.
Event(id) ==
    [id |-> id, ts |-> catalog[id].ts, kind |-> catalog[id].kind,
     target |-> catalog[id].target]

\* impl Default for MessageBuffer
DefaultBuffer ==
    [messages |-> <<>>, known_ids |-> {}, start |-> None, end |-> None,
     updated |-> UNIX_EPOCH, loading |-> FALSE]

Ids(s) == {s[i].id : i \in 1..Len(s)}

IsSorted(s) == \A i \in 1..(Len(s) - 1) : s[i].ts <= s[i + 1].ts

\* The sequence without its i-th element.
Without(s, i) == SubSeq(s, 1, i - 1) \o SubSeq(s, i + 1, Len(s))

\* The orderings of s by timestamp: each begins with one of the events of
\* the least timestamp and goes on with an ordering of the others.
RECURSIVE Orderings(_)
Orderings(s) ==
    IF s = <<>> THEN {<<>>}
    ELSE LET least == {i \in 1..Len(s) : \A j \in 1..Len(s) : s[i].ts <= s[j].ts}
         IN  UNION {{<<s[i]>> \o t : t \in Orderings(Without(s, i))} : i \in least}

\* Mutant: sort puts the latest event first.
sort_mutLatestFirst(s) ==
    {[i \in 1..Len(o) |-> o[Len(o) + 1 - i]] : o \in Orderings(s)}

\* A mutation of sort: the vector is left as it is.
sort_mutNoSort(s) == {s}

\* MessageBuffer::sort: sort_unstable_by_key on origin_server_ts. The result is
\* ordered by timestamp; the order among events of equal timestamp is whatever
\* the unstable sort leaves, so every ordering by timestamp is a possible result.
sort(s) == Orderings(s)

\* Mutant: the last-activity time never goes back.
update_time_mutMonotone(buf) ==
    [buf EXCEPT !.updated =
        IF Len(buf.messages) > 0 /\ buf.messages[Len(buf.messages)].ts > @
        THEN buf.messages[Len(buf.messages)].ts
        ELSE @]

\* MessageBuffer::update_time
update_time(buf) ==
    [buf EXCEPT !.updated =
        IF Len(buf.messages) > 0 THEN buf.messages[Len(buf.messages)].ts
        ELSE UNIX_EPOCH]

\* A mutation of remove: the predicate of retain is inverted.
remove_mutInverted(buf, id) ==
    [buf EXCEPT !.messages = SelectSeq(@, LAMBDA e : e.id = id),
                !.known_ids = @ \ {id}]

\* A mutation of remove: the id stays in known_ids.
remove_mutKeepKnown(buf, id) ==
    [buf EXCEPT !.messages = SelectSeq(@, LAMBDA e : e.id # id)]

\* MessageBuffer::remove
remove(buf, id) ==
    [buf EXCEPT !.messages = SelectSeq(@, LAMBDA e : e.id # id),
                !.known_ids = @ \ {id}]

\* The target removal push and append share: a Replacement relation of a
\* RoomMessage, then the redacts field of a RoomRedaction.
RemoveTarget(buf, event) ==
    IF event.kind \in {"edit", "redaction"} THEN remove(buf, event.target)
    ELSE buf

\* Mutant: push leaves the event out while a backfill is loading.
push_mutBlockedWhileLoading(buf, event) ==
    IF buf.loading THEN {buf}
    ELSE LET b1 == [buf EXCEPT !.known_ids = @ \cup {event.id}]
             b2 == RemoveTarget(b1, event)
             b3 == [b2 EXCEPT !.messages = Append(@, event)]
         IN  {update_time([b3 EXCEPT !.messages = m]) : m \in sort(b3.messages)}

\* Mutant: push leaves the event out.
push_mutNoStore(buf, event) == {buf}

\* MessageBuffer::push: the buffers the call can leave (one per result of sort).
push(buf, event) ==
    LET b1 == [buf EXCEPT !.known_ids = @ \cup {event.id}]
        b2 == RemoveTarget(b1, event)
        b3 == [b2 EXCEPT !.messages = Append(@, event)]
    IN  {update_time([b3 EXCEPT !.messages = m]) : m \in sort(b3.messages)}

\* The for loop of append over the retained events.
RECURSIVE AppendLoop(_, _)
AppendLoop(buf, events) ==
    IF events = <<>> THEN buf
    ELSE LET b1 == RemoveTarget(buf, Head(events))
             b2 == [b1 EXCEPT !.known_ids = @ \cup {Head(events).id}]
         IN  AppendLoop(b2, Tail(events))

\* MessageBuffer::append: the buffers the call can leave.
append(buf, events) ==
    LET kept == SelectSeq(events, LAMBDA e : e.id \notin buf.known_ids)
        b1 == AppendLoop(buf, kept)
        b2 == [b1 EXCEPT !.messages = @ \o kept]
    IN  {update_time([b2 EXCEPT !.messages = m]) : m \in sort(b2.messages)}

\* Mutant: any state event counts as the beginning.
has_beginning_mutAnyState(buf) ==
    \E i \in 1..Len(buf.messages) :
       buf.messages[i].kind \in {"create", "redacted_state", "name", "state"}

\* MessageBuffer::has_beginning
has_beginning(buf) ==
    \E i \in 1..Len(buf.messages) : buf.messages[i].kind = "create"

\* ------------------------------------------------------------------------
\* SpecBuf: one buffer, any sequence of push and append
\* ------------------------------------------------------------------------
Batches == UNION {[1..n -> EventIds] : n \in 0..MaxBatch}

\* The application is not running while a buffer is exercised on its own.
AppIdle ==
    /\ screen = "Prompt"
    /\ rooms = <<>>
    /\ selected = None
    /\ error = None
    /\ sync_token = ""
    /\ joined = {}
    /\ cmds = EmptyBag
    /\ feed = {}
    /\ panicked = FALSE
    /\ answered = <<>>
    /\ sas = None
    /\ settings_view = None

BufInit ==
    /\ catalog \in [EventIds -> Contents]
    /\ buffer = DefaultBuffer
    /\ last = [op |-> "new", arg |-> <<>>, before |-> DefaultBuffer]
    /\ AppIdle

Push(id) ==
    /\ Len(buffer.messages) < MaxLen
    /\ buffer' \in push(buffer, Event(id))
    /\ last' = [op |-> "push", arg |-> <<id>>, before |-> buffer]
    /\ UNCHANGED <<catalog, appvars>>

AppendBatch(ids) ==
    /\ Len(buffer.messages) < MaxLen
    /\ buffer' \in append(buffer, [i \in 1..Len(ids) |-> Event(ids[i])])
    /\ last' = [op |-> "append", arg |-> ids, before |-> buffer]
    /\ UNCHANGED <<catalog, appvars>>

BufNext ==
    \/ \E id \in EventIds : Push(id)
    \/ \E ids \in Batches : AppendBatch(ids)

SpecBuf == BufInit /\ [][BufNext]_vars

\* ------------------------------------------------------------------------
\* SpecOrder: events without relations, distinct in id and timestamp, each
\* pushed once, in any order
\* ------------------------------------------------------------------------
MaxOrder == 3
OrderIds == {"a", "b", "c"}

OrderInit ==
    /\ catalog \in {f \in [OrderIds -> [ts : 1..MaxOrder,
                                        kind : {"message", "create"},
                                        target : {None}]] :
                      \A i \in OrderIds : \A j \in OrderIds \ {i} :
                         f[i].ts # f[j].ts}
    /\ buffer = DefaultBuffer
    /\ last = [op |-> "new", arg |-> <<>>, before |-> DefaultBuffer]
    /\ AppIdle

PushOnce(id) ==
    /\ id \notin buffer.known_ids
    /\ buffer' \in push(buffer, Event(id))
    /\ last' = [op |-> "push", arg |-> <<id>>, before |-> buffer]
    /\ UNCHANGED <<catalog, appvars>>

OrderNext == \E id \in OrderIds : PushOnce(id)

SpecOrder == OrderInit /\ [][OrderNext]_vars

\* ------------------------------------------------------------------------
\* The application: rooms, events and the collaborators of MainView
\* ------------------------------------------------------------------------
Rooms == {"r1", "r2"}

\* An event of a room as the dispatcher sees it. kind is one of the buffer's
\* kinds or "alias", "name", "topic", "avatar", "member", "state" (any other
\* state event), "redacted_message", "redacted_state"; arg is the content the
\* handler reads ("state_key membership" for a member event).
Ev(r, n, ts, kind, target, arg) ==
    [id |-> <<r, n>>, room |-> r, ts |-> ts, kind |-> kind,
     target |-> target, arg |-> arg]

Message1(r) == Ev(r, "m1", 1, "message", None, None)
Message2(r) == Ev(r, "m2", 2, "message", None, None)
Edit1(r)    == Ev(r, "e1", 2, "edit", <<r, "m1">>, None)
Create(r)   == Ev(r, "c0", 1, "create", None, None)
SelfJoin(r) == Ev(r, "j1", 1, "member", None, "self join")
SelfLeave(r) == Ev(r, "l1", 2, "member", None, "self leave")
OtherJoin(r) == Ev(r, "j2", 6, "member", None, "other join")
OtherLeave(r) == Ev(r, "l2", 7, "member", None, "other leave")
SelfBan(r)  == Ev(r, "b1", 8, "member", None, "self ban")
Redaction1(r) == Ev(r, "x1", 2, "redaction", <<r, "m1">>, None)
Alias(r)    == Ev(r, "sa", 3, "alias", None, "alias " \o r)
Name(r)     == Ev(r, "sn", 2, "name", None, "name " \o r)
Topic(r)    == Ev(r, "st", 2, "topic", None, "topic " \o r)
Avatar(r)   == Ev(r, "sv", 4, "avatar", None, "mxc " \o r)
OtherState(r) == Ev(r, "so", 5, "state", None, None)
RedactedMessage(r) == Ev(r, "dm", 1, "redacted_message", None, None)
RedactedState(r) == Ev(r, "ds", 1, "redacted_state", None, None)

\* The to-device events of the stream, which belong to no room.
ToDeviceKinds == {"key_verification_start", "key_verification_cancel"}
KeyVerificationStart == Ev(None, "vs", 1, "key_verification_start", None, None)
KeyVerificationCancel == Ev(None, "vc", 1, "key_verification_cancel", None, None)

\* RoomEntry::default
DefaultEntry ==
    [name |-> "", topic |-> "", alias |-> None, display_name |-> None,
     avatar |-> None, direct |-> None, messages |-> DefaultBuffer]

\* What the SDK's room object answers in RoomEntry::from_sdk.
SdkRoom(r) ==
    [direct |-> None, name |-> "sdk name " \o r, topic |-> "sdk topic " \o r,
     alias |-> None, avatar |-> None]

\* RoomEntry::from_sdk
from_sdk(r) ==
    [DefaultEntry EXCEPT !.direct = SdkRoom(r).direct,
                         !.name = SdkRoom(r).name,
                         !.topic = SdkRoom(r).topic,
                         !.alias = SdkRoom(r).alias,
                         !.avatar = SdkRoom(r).avatar]

\* joined.create_content().predecessor: r1 is the upgrade of r2.
Predecessor(r) == IF r = "r1" THEN "r2" ELSE None

\* joined.tombstone().replacement_room: r2 was upgraded to r1.
Tombstone(r) == IF r = "r2" THEN "r1" ELSE None

\* room.last_prev_batch(): the SDK holds a token for r1 and none for r2.
last_prev_batch(r) == IF r = "r1" THEN "p1" ELSE None

\* get_message_events responses the server may give for a room: for r1 a
\* page without start cursor and the page that reaches the beginning of the
\* room, without end cursor; for r2 one page. A raw event that does not
\* deserialize is "malformed".
Malformed == [kind |-> "malformed"]
Responses(r) ==
    IF r = "r1"
    THEN { [chunk |-> <<Message2(r), Message1(r)>>, state |-> <<>>,
            start |-> None, end |-> "t1"],
           [chunk |-> <<Malformed, Message1(r)>>,
            state |-> <<Malformed, Create(r)>>,
            start |-> "t1", end |-> None] }
    ELSE { [chunk |-> <<Message1(r)>>, state |-> <<>>,
            start |-> "t0", end |-> "t1"] }

\* Mutant: one raw event that does not deserialize fails the whole list.
Deserialized_mutAllOrNothing(raw) ==
    IF \E i \in 1..Len(raw) : raw[i].kind = "malformed" THEN <<>> ELSE raw

\* Mutant: the handler drops the first event that deserializes.
Deserialized_mutDropFirst(raw) ==
    LET ok == SelectSeq(raw, LAMBDA e : e.kind # "malformed")
    IN  IF ok = <<>> THEN ok ELSE Tail(ok)

\* filter_map(|e| e.deserialize().ok())
Deserialized(raw) == SelectSeq(raw, LAMBDA e : e.kind # "malformed")

\* Mutant: the entry is replaced by a default one even when it exists.
or_default_mutResets(rs, r) == (r :> DefaultEntry) @@ rs

\* BTreeMap::entry(id).or_default() on rooms
or_default(rs, r) ==
    IF r \in DOMAIN rs THEN rs ELSE (r :> DefaultEntry) @@ rs

\* Mutant: remove empties the registry.
without_mutClearsAll(rs, r) == [x \in {} |-> rs[x]]

\* Mutant: remove leaves the entry in the registry.
without_mutKeeps(rs, r) == rs

\* Mutant: insert keeps the new entry alone.
insert_mutEvicts(rs, r, entry) == (r :> entry)

\* BTreeMap::insert / BTreeMap::remove on rooms
insert(rs, r, entry) == (r :> entry) @@ rs
without(rs, r) == [x \in DOMAIN rs \ {r} |-> rs[x]]

\* Commands in flight
AuthCmd == [type |-> "Auth"]
ResetRoomCmd(r, entry) == [type |-> "ResetRoom", room |-> r, entry |-> entry]
BackFillCmd(r) == [type |-> "BackFill", room |-> r]
RequestCmd(r, token) == [type |-> "Request", room |-> r, token |-> token]
RoomNameCmd(r) == [type |-> "RoomName", room |-> r]
GetVerificationCmd == [type |-> "GetVerification"]
CancelledCmd == [type |-> "VerificationCancelled"]
SasCmd(op) == [type |-> "Sas", op |-> op]
ErrorCmd == [type |-> "ErrorMessage"]
DisplayNameCmd == [type |-> "DisplayName"]

One(c) == SetToBag({c})
InFlight == BagCardinality(cmds)
Pending(type) == {c \in BagToSet(cmds) : c.type = type}

\* The pagination requests for the room that are issued and not yet answered.
Outstanding(r) ==
    LET reqs == {c \in Pending("Request") : c.room = r}
    IN  IF reqs = {} THEN 0
        ELSE BagCardinality([c \in reqs |-> CopiesIn(c, cmds)])

\* The verification flow and the settings view, which the handlers of the
\* rooms leave alone.
side == <<sas, settings_view>>

\* The buffer of SpecBuf is not involved in the application, and only the
\* handler of a pagination response records one.
App == UNCHANGED <<bufvars, answered, side>>

\* update panics: the process is gone, nothing else changes.
Panic ==
    /\ panicked' = TRUE
    /\ App
    /\ UNCHANGED <<screen, rooms, selected, error, sync_token, joined, cmds, feed>>

Running == screen = "LoggedIn" /\ ~panicked

\* MainView::view draws the settings view instead of the room list, the
\* timeline and their buttons while it is open.
MainShown == settings_view = None

\* ------------------------------------------------------------------------
\* Retrix::update: the session life cycle
\* ------------------------------------------------------------------------
\* What the sync stream may deliver in a run.  The stream sends room events
\* only: its send of Event::Token is commented out, so the Token handler of
\* MainView::update never runs and sync_token keeps its initial value.
Feed ==
    {Message1("r1"), Create("r1"), SelfLeave("r1"), Name("r1"),
     Message1("r2"), Topic("r2")}

\* The stream of the runs that follow the pagination of r1.
FeedPaginate ==
    {Create("r1"), SelfLeave("r1"), Name("r1"), Message1("r2")}

\* The stream of the runs that follow the dispatcher: one event of each kind
\* for r2, which is not registered at login, and the leave of r1.
FeedDispatch ==
    {Message1("r2"), RedactedMessage("r2"), RedactedState("r2"), Name("r2"),
     SelfLeave("r1")}

\* The stream of the runs that follow the state-event rules: the metadata
\* events of r2 and a state event of another kind.
FeedMeta ==
    {Avatar("r2"), Topic("r2"), Alias("r2"), Name("r2"), OtherState("r2")}

\* Retrix::new: the prompt, or a restore of the saved session in flight.
Init ==
    /\ screen \in {"Prompt", "AwaitLogin"}
    /\ cmds = IF screen = "AwaitLogin" THEN One(AuthCmd) ELSE EmptyBag
    /\ rooms = <<>>
    /\ selected = None
    /\ error = None
    /\ sync_token = ""
    /\ joined = {"r1"}
    /\ feed = Feed
    /\ panicked = FALSE
    /\ answered = <<>>
    /\ sas = None
    /\ settings_view = None
    /\ catalog = <<>>
    /\ buffer = DefaultBuffer
    /\ last = [op |-> "new", arg |-> <<>>, before |-> DefaultBuffer]

\* Mutant: a login submitted while an attempt is awaited starts another.
Login_mutWhileAwaiting ==
    /\ screen \in {"Prompt", "AwaitLogin"}
    /\ CopiesIn(AuthCmd, cmds) < MaxInFlight
    /\ screen' = "AwaitLogin"
    /\ cmds' = cmds (+) One(AuthCmd)
    /\ App
    /\ UNCHANGED <<rooms, selected, error, sync_token, joined, feed, panicked>>

\* Mutant: a login can be submitted from the main view as well.
Login_mutAnyScreen ==
    /\ screen # "AwaitLogin"
    /\ screen' = "AwaitLogin"
    /\ cmds' = cmds (+) One(AuthCmd)
    /\ App
    /\ UNCHANGED <<rooms, selected, error, sync_token, joined, feed, panicked>>

\* Message::Login / Message::Signup in Retrix::Prompt
Login ==
    /\ screen = "Prompt"
    /\ screen' = "AwaitLogin"
    /\ cmds' = cmds (+) One(AuthCmd)
    /\ App
    /\ UNCHANGED <<rooms, selected, error, sync_token, joined, feed, panicked>>

\* Mutant: the failure returns to the prompt without its error.
LoginFailed_mutNoError ==
    /\ screen = "AwaitLogin"
    /\ BagIn(AuthCmd, cmds)
    /\ screen' = "Prompt"
    /\ cmds' = cmds (-) One(AuthCmd)
    /\ App
    /\ UNCHANGED <<rooms, selected, error, sync_token, joined, feed, panicked>>

\* Message::LoginFailed in Retrix::AwaitLogin
LoginFailed ==
    /\ screen = "AwaitLogin"
    /\ BagIn(AuthCmd, cmds)
    /\ screen' = "Prompt"
    /\ error' = "error"
    /\ cmds' = cmds (-) One(AuthCmd)
    /\ App
    /\ UNCHANGED <<rooms, selected, sync_token, joined, feed, panicked>>

\* Message::LoggedIn in Retrix::AwaitLogin: MainView::new and one snapshot
\* fetch per joined room.
LoggedIn ==
    /\ screen = "AwaitLogin"
    /\ BagIn(AuthCmd, cmds)
    /\ screen' = "LoggedIn"
    /\ rooms' = <<>>
    /\ selected' = None
    /\ error' = None
    /\ sync_token' = ""
    /\ cmds' = (cmds (-) One(AuthCmd))
                 (+) SetToBag({ResetRoomCmd(r, from_sdk(r)) : r \in joined})
    /\ App
    /\ UNCHANGED <<joined, feed, panicked>>

\* ------------------------------------------------------------------------
\* MainView::update
\* ------------------------------------------------------------------------
\* Message::ResetRoom
ResetRoom(c) ==
    /\ Running
    /\ c \in Pending("ResetRoom")
    /\ rooms' = insert(rooms, c.room, c.entry)
    /\ cmds' = (cmds (-) One(c)) (+) One(BackFillCmd(c.room))
    /\ App
    /\ UNCHANGED <<screen, selected, error, sync_token, joined, feed, panicked>>

\* The rooms a button of the view selects: one of the room list, the
\* predecessor of the selected room ("Go to older version"), or the room the
\* selected room was upgraded to ("Go to upgraded room").
Selectable ==
    DOMAIN rooms
      \cup {r \in Rooms :
              /\ selected \in DOMAIN rooms \cap joined
              /\ ~rooms[selected].messages.loading
              /\ has_beginning(rooms[selected].messages)
              /\ Predecessor(selected) = r}
      \cup {r \in Rooms :
              /\ selected \in DOMAIN rooms \cap joined
              /\ Tombstone(selected) = r}

\* Mutant: selecting a room asks for older messages whatever its store holds.
SelectRoom_mutAlwaysBackFills(r) ==
    /\ Running
    /\ MainShown
    /\ r \in Selectable
    /\ IF r \notin DOMAIN rooms
       THEN Panic
       ELSE /\ selected' = r
            /\ InFlight < MaxInFlight
            /\ cmds' = cmds (+) One(BackFillCmd(r))
            /\ App
            /\ UNCHANGED <<screen, rooms, error, sync_token, joined, feed, panicked>>

\* Message::SelectRoom
SelectRoom(r) ==
    /\ Running
    /\ MainShown
    /\ r \in Selectable
    /\ IF r \notin DOMAIN rooms
       THEN Panic
       ELSE /\ selected' = r
            /\ IF rooms[r].messages.messages = <<>>
               THEN /\ InFlight < MaxInFlight
                    /\ cmds' = cmds (+) One(BackFillCmd(r))
               ELSE UNCHANGED cmds
            /\ App
            /\ UNCHANGED <<screen, rooms, error, sync_token, joined, feed, panicked>>

\* The token of the request BackFill sends.
BackFillToken(entry, r) ==
    IF entry.messages.end # None THEN entry.messages.end
    ELSE IF last_prev_batch(r) # None THEN last_prev_batch(r)
    ELSE sync_token

\* The handler of Message::BackFill, on taking the commands `rest` as left.
BackFillHandler(r, rest) ==
    IF r \notin joined
    THEN Panic
    ELSE LET rs == or_default(rooms, r)
         IN  /\ rooms' = [rs EXCEPT ![r].messages.loading = TRUE]
             /\ cmds' = rest (+) One(RequestCmd(r, BackFillToken(rs[r], r)))
             /\ App
             /\ UNCHANGED <<screen, selected, error, sync_token, joined, feed,
                            panicked>>

\* Message::BackFill sent by a command of ResetRoom or SelectRoom
BackFill(c) ==
    /\ Running
    /\ c \in Pending("BackFill")
    /\ BackFillHandler(c.room, cmds (-) One(c))

\* Message::BackFill sent by the "Load more messages" button of the view
BackFillButton(r) ==
    /\ Running
    /\ MainShown
    /\ InFlight < MaxInFlight
    /\ selected = r
    /\ r \in DOMAIN rooms \cap joined
    /\ ~rooms[r].messages.loading
    /\ ~has_beginning(rooms[r].messages)
    /\ BackFillHandler(r, cmds)

\* Mutant: a response for a room that is not the selected one is discarded.
BackFilled_mutDropStale(c, response) ==
    /\ Running
    /\ c \in Pending("Request")
    /\ IF c.room \notin DOMAIN rooms
       THEN Panic
       ELSE LET events == IF selected = c.room
                          THEN Deserialized(response.chunk)
                                 \o Deserialized(response.state)
                          ELSE <<>>
                b1 == [rooms[c.room].messages EXCEPT
                         !.loading = FALSE,
                         !.start = IF response.start # None
                                   THEN response.start ELSE @,
                         !.end = IF response.end # None
                                 THEN response.end ELSE @]
            IN  /\ \E b2 \in append(b1, events) :
                     rooms' = [rooms EXCEPT ![c.room].messages = b2]
                /\ cmds' = cmds (-) One(c)
                /\ answered' =
                     IF c.room \in DOMAIN answered
                     THEN [answered EXCEPT ![c.room] =
                             [done |-> TRUE,
                              end |-> IF response.end # None
                                      THEN response.end ELSE @.end,
                              selected |-> selected]]
                     ELSE answered
                /\ UNCHANGED <<bufvars, side>>
                /\ UNCHANGED <<screen, selected, error, sync_token, joined, feed,
                               panicked>>

\* Message::BackFilled: the request was answered.
BackFilled(c, response) ==
    /\ Running
    /\ c \in Pending("Request")
    /\ IF c.room \notin DOMAIN rooms
       THEN Panic
       ELSE LET events == Deserialized(response.chunk)
                            \o Deserialized(response.state)
                b1 == [rooms[c.room].messages EXCEPT
                         !.loading = FALSE,
                         !.start = IF response.start # None
                                   THEN response.start ELSE @,
                         !.end = IF response.end # None
                                 THEN response.end ELSE @]
            IN  /\ \E b2 \in append(b1, events) :
                     rooms' = [rooms EXCEPT ![c.room].messages = b2]
                /\ cmds' = cmds (-) One(c)
                /\ answered' =
                     IF c.room \in DOMAIN answered
                     THEN [answered EXCEPT ![c.room] =
                             [done |-> TRUE,
                              end |-> IF response.end # None
                                      THEN response.end ELSE @.end,
                              selected |-> selected]]
                     ELSE answered
                /\ UNCHANGED <<bufvars, side>>
                /\ UNCHANGED <<screen, selected, error, sync_token, joined, feed,
                               panicked>>

\* Message::ErrorMessage: the request failed.
BackFillFailed(c) ==
    /\ Running
    /\ c \in Pending("Request")
    /\ error' = "error"
    /\ cmds' = cmds (-) One(c)
    /\ App
    /\ UNCHANGED <<screen, rooms, selected, sync_token, joined, feed, panicked>>

\* Message::ClearError
ClearError ==
    /\ Running
    /\ MainShown
    /\ error # None
    /\ error' = None
    /\ App
    /\ UNCHANGED <<screen, rooms, selected, sync_token, joined, cmds, feed, panicked>>

\* Message::RoomName: the answer to the display name fetch a name event
\* started. The fetch unwraps get_joined_room inside its future.
RoomName(c) ==
    /\ Running
    /\ c \in Pending("RoomName")
    /\ c.room \in joined
    /\ rooms' = IF c.room \in DOMAIN rooms
                THEN [rooms EXCEPT ![c.room].name = SdkRoom(c.room).name]
                ELSE rooms
    /\ cmds' = cmds (-) One(c)
    /\ App
    /\ UNCHANGED <<screen, selected, error, sync_token, joined, feed, panicked>>

\* Message::ErrorMessage: the display name fetch failed.
RoomNameFailed(c) ==
    /\ Running
    /\ c \in Pending("RoomName")
    /\ c.room \in joined
    /\ error' = "error"
    /\ cmds' = cmds (-) One(c)
    /\ App
    /\ UNCHANGED <<screen, rooms, selected, sync_token, joined, feed, panicked>>

\* The rooms the SDK holds as joined once it has taken in the sync response
\* that carries the event: the stream delivers the events of joined rooms.
JoinedAfter(e) ==
    IF e.kind = "member" /\ e.arg = "self leave"
    THEN joined \ {e.room}
    ELSE joined \cup {e.room}

\* The commands the handler of a room event returns.
SyncCommands(e) ==
    IF e.kind = "name" THEN One(RoomNameCmd(e.room))
    ELSE IF e.kind = "create"
    THEN SetToBag({ResetRoomCmd(e.room,
                     [from_sdk(e.room) EXCEPT !.messages = b]) :
                   b \in push(DefaultBuffer, e)})
    ELSE IF e.kind = "member" /\ e.arg = "self join"
    THEN One(ResetRoomCmd(e.room, from_sdk(e.room)))
    ELSE EmptyBag

\* Mutant: a topic event overwrites the name as well.
Patched_mutTopicSetsName(entry, e) ==
    IF e.kind = "alias" THEN [entry EXCEPT !.alias = e.arg]
    ELSE IF e.kind = "name" THEN [entry EXCEPT !.display_name = e.arg]
    ELSE IF e.kind = "topic" THEN [entry EXCEPT !.topic = e.arg, !.name = e.arg]
    ELSE IF e.kind = "avatar" THEN [entry EXCEPT !.avatar = entry.avatar]
    ELSE entry

\* The metadata of the entry the handler of a state event sets.
Patched(entry, e) ==
    IF e.kind = "alias" THEN [entry EXCEPT !.alias = e.arg]
    ELSE IF e.kind = "name" THEN [entry EXCEPT !.display_name = e.arg]
    ELSE IF e.kind = "topic" THEN [entry EXCEPT !.topic = e.arg]
    ELSE IF e.kind = "avatar" THEN [entry EXCEPT !.avatar = entry.avatar]
    ELSE entry

\* Mutant: a leave removes the room whoever left.
Dispatched_mutAnyLeaveRemoves(rs0, sel, e) ==
    LET r == e.room
        rs == or_default(rs0, r)
    IN  CASE e.kind = "create" ->
               {[rooms |-> rs0, selected |-> sel]}
          [] e.kind = "member" /\ e.arg = "self join" ->
               {[rooms |-> rs, selected |-> sel]}
          [] e.kind = "member" /\ e.arg \in {"self leave", "other leave"} ->
               {[rooms |-> without(rs, r),
                 selected |-> IF sel = r THEN None ELSE sel]}
          [] OTHER ->
               {[rooms |-> [rs EXCEPT ![r] =
                              [Patched(@, e) EXCEPT !.messages = b]],
                 selected |-> sel] : b \in push(rs[r].messages, e)}

\* Message::Sync(matrix::Event::Joined(event, joined)): what the handler of
\* a room event makes of the registry and the selection.  One outcome for
\* each order the store's unstable sort may leave.
Dispatched(rs0, sel, e) ==
    LET r == e.room
        rs == or_default(rs0, r)
    IN  CASE e.kind = "create" ->
               {[rooms |-> rs0, selected |-> sel]}
          [] e.kind = "member" /\ e.arg = "self join" ->
               {[rooms |-> rs, selected |-> sel]}
          [] e.kind = "member" /\ e.arg = "self leave" ->
               {[rooms |-> without(rs, r),
                 selected |-> IF sel = r THEN None ELSE sel]}
          [] OTHER ->
               {[rooms |-> [rs EXCEPT ![r] =
                              [Patched(@, e) EXCEPT !.messages = b]],
                 selected |-> sel] : b \in push(rs[r].messages, e)}

\* Message::Sync(matrix::Event::Joined(event, joined))
SyncRoomEvent(e) ==
    /\ Running
    /\ e \in feed
    /\ e.kind \notin ToDeviceKinds
    /\ InFlight + BagCardinality(SyncCommands(e)) <= MaxInFlight
    /\ IF e.kind = "create" /\ e.room \notin JoinedAfter(e)
       THEN Panic
       ELSE /\ feed' = feed \ {e}
            /\ joined' = JoinedAfter(e)
            /\ cmds' = cmds (+) SyncCommands(e)
            /\ App
            /\ UNCHANGED <<screen, error, sync_token, panicked>>
            /\ \E d \in Dispatched(rooms, selected, e) :
                 /\ rooms' = d.rooms
                 /\ selected' = d.selected

Next ==
    \/ Login
    \/ LoginFailed
    \/ LoggedIn
    \/ \E c \in BagToSet(cmds) : ResetRoom(c)
    \/ \E r \in Rooms : SelectRoom(r)
    \/ \E c \in BagToSet(cmds) : BackFill(c)
    \/ \E r \in Rooms : BackFillButton(r)
    \/ \E c \in BagToSet(cmds) : \E r \in Rooms : \E response \in Responses(r) :
          c.type = "Request" /\ c.room = r /\ BackFilled(c, response)
    \/ \E c \in BagToSet(cmds) : BackFillFailed(c)
    \/ ClearError
    \/ \E c \in BagToSet(cmds) : RoomName(c)
    \/ \E c \in BagToSet(cmds) : RoomNameFailed(c)
    \/ \E e \in feed : SyncRoomEvent(e)

Spec == Init /\ [][Next]_vars

\* The same application with the history of r1's pagination responses kept.
NoAnswer == [done |-> FALSE, end |-> None, selected |-> None]
InitPaginate ==
    /\ screen \in {"Prompt", "AwaitLogin"}
    /\ cmds = IF screen = "AwaitLogin" THEN One(AuthCmd) ELSE EmptyBag
    /\ rooms = <<>>
    /\ selected = None
    /\ error = None
    /\ sync_token = ""
    /\ joined = {"r1"}
    /\ feed = FeedPaginate
    /\ panicked = FALSE
    /\ answered = [r \in {"r1"} |-> NoAnswer]
    /\ sas = None
    /\ settings_view = None
    /\ catalog = <<>>
    /\ buffer = DefaultBuffer
    /\ last = [op |-> "new", arg |-> <<>>, before |-> DefaultBuffer]

SpecPaginate == InitPaginate /\ [][Next]_vars

\* The same application on a stream that carries events of a room the
\* registry does not hold.
InitDispatch ==
    /\ screen \in {"Prompt", "AwaitLogin"}
    /\ cmds = IF screen = "AwaitLogin" THEN One(AuthCmd) ELSE EmptyBag
    /\ rooms = <<>>
    /\ selected = None
    /\ error = None
    /\ sync_token = ""
    /\ joined = {"r1"}
    /\ feed = FeedDispatch
    /\ panicked = FALSE
    /\ answered = <<>>
    /\ sas = None
    /\ settings_view = None
    /\ catalog = <<>>
    /\ buffer = DefaultBuffer
    /\ last = [op |-> "new", arg |-> <<>>, before |-> DefaultBuffer]

SpecDispatch == InitDispatch /\ [][Next]_vars

\* The same application on a stream of state events.
InitMeta ==
    /\ screen \in {"Prompt", "AwaitLogin"}
    /\ cmds = IF screen = "AwaitLogin" THEN One(AuthCmd) ELSE EmptyBag
    /\ rooms = <<>>
    /\ selected = None
    /\ error = None
    /\ sync_token = ""
    /\ joined = {"r1"}
    /\ feed = FeedMeta
    /\ panicked = FALSE
    /\ answered = <<>>
    /\ sas = None
    /\ settings_view = None
    /\ catalog = <<>>
    /\ buffer = DefaultBuffer
    /\ last = [op |-> "new", arg |-> <<>>, before |-> DefaultBuffer]

SpecMeta == InitMeta /\ [][Next]_vars

\* The stream of the runs that follow the member events: members other
\* than the local user joining and leaving r1, the local user banned from
\* r2, and the name event of r2.
FeedMember ==
    {OtherJoin("r1"), OtherLeave("r1"), SelfBan("r2"), Name("r2")}

InitMember ==
    /\ screen \in {"Prompt", "AwaitLogin"}
    /\ cmds = IF screen = "AwaitLogin" THEN One(AuthCmd) ELSE EmptyBag
    /\ rooms = <<>>
    /\ selected = None
    /\ error = None
    /\ sync_token = ""
    /\ joined = {"r1"}
    /\ feed = FeedMember
    /\ panicked = FALSE
    /\ answered = <<>>
    /\ sas = None
    /\ settings_view = None
    /\ catalog = <<>>
    /\ buffer = DefaultBuffer
    /\ last = [op |-> "new", arg |-> <<>>, before |-> DefaultBuffer]

SpecMember == InitMember /\ [][Next]_vars

\* ------------------------------------------------------------------------
\* MainView::update: the verification flow and the settings view
\* ------------------------------------------------------------------------
\* What the other handlers leave alone.
Rest == UNCHANGED <<bufvars, answered, screen, rooms, selected, sync_token,
                    joined, panicked>>

\* Message::Sync(matrix::Event::ToDevice(event))
SyncToDevice(e) ==
    /\ Running
    /\ e \in feed
    /\ e.kind \in ToDeviceKinds
    /\ InFlight < MaxInFlight
    /\ feed' = feed \ {e}
    /\ cmds' = cmds (+) (IF e.kind = "key_verification_start"
                         THEN One(GetVerificationCmd) ELSE One(CancelledCmd))
    /\ Rest
    /\ UNCHANGED <<error, side>>

\* Message::SetVerification: what client.get_verification found.
SetVerification(c, v) ==
    /\ Running
    /\ c \in Pending("GetVerification")
    /\ sas' = v
    /\ cmds' = cmds (-) One(c)
    /\ Rest
    /\ UNCHANGED <<error, feed, settings_view>>

\* Message::VerificationAccept / VerificationConfirm / VerificationCancel,
\* sent by the buttons of the verification row.
VerificationButton(op) ==
    /\ Running
    /\ MainShown
    /\ sas # None
    /\ InFlight < MaxInFlight
    /\ cmds' = cmds (+) One(SasCmd(op))
    /\ Rest
    /\ UNCHANGED <<error, feed, side>>

\* Message::VerificationAccepted / VerificationConfirmed: no arm.
VerificationAnswered(c) ==
    /\ Running
    /\ c \in Pending("Sas")
    /\ c.op # "cancel"
    /\ cmds' = cmds (-) One(c)
    /\ Rest
    /\ UNCHANGED <<error, feed, side>>

\* Mutant: a cancelled verification clears the selection as well.
VerificationCancelled_mutDeselects(c) ==
    /\ Running
    /\ c \in Pending("VerificationCancelled")
              \cup {x \in Pending("Sas") : x.op = "cancel"}
    /\ sas' = None
    /\ selected' = None
    /\ cmds' = (cmds (-) One(c)) (+) One(ErrorCmd)
    /\ UNCHANGED <<bufvars, answered, screen, rooms, sync_token, joined,
                   panicked, error, feed, settings_view>>

\* Message::VerificationCancelled, from the other device or from the
\* cancel button once sas.cancel() has succeeded.
VerificationCancelled(c) ==
    /\ Running
    /\ c \in Pending("VerificationCancelled")
              \cup {x \in Pending("Sas") : x.op = "cancel"}
    /\ sas' = None
    /\ cmds' = (cmds (-) One(c)) (+) One(ErrorCmd)
    /\ Rest
    /\ UNCHANGED <<error, feed, settings_view>>

\* Message::ErrorMessage: the cancel code, or a failed call on the flow.
ErrorMessage(c) ==
    /\ Running
    /\ c \in Pending("ErrorMessage") \cup Pending("Sas")
    /\ error' = "error"
    /\ cmds' = cmds (-) One(c)
    /\ Rest
    /\ UNCHANGED <<feed, side>>

\* Message::VerificationClose
VerificationClose ==
    /\ Running
    /\ MainShown
    /\ sas # None
    /\ sas' = None
    /\ Rest
    /\ UNCHANGED <<error, feed, cmds, settings_view>>

\* Message::OpenSettings
OpenSettings ==
    /\ Running
    /\ MainShown
    /\ InFlight < MaxInFlight
    /\ settings_view' = "blank"
    /\ cmds' = cmds (+) One(DisplayNameCmd)
    /\ Rest
    /\ UNCHANGED <<error, feed, sas>>

\* Message::SetDisplayNameInput
SetDisplayNameInput(c, name) ==
    /\ Running
    /\ c \in Pending("DisplayName")
    /\ settings_view' = IF settings_view # None THEN name ELSE settings_view
    /\ cmds' = cmds (-) One(c)
    /\ Rest
    /\ UNCHANGED <<error, feed, sas>>

\* Message::CloseSettings
CloseSettings ==
    /\ Running
    /\ settings_view # None
    /\ settings_view' = None
    /\ Rest
    /\ UNCHANGED <<error, feed, cmds, sas>>

\* The application with its to-device events and its settings view.
NextSide ==
    \/ Next
    \/ \E e \in feed : SyncToDevice(e)
    \/ \E c \in BagToSet(cmds) : \E v \in {None, "sas"} : SetVerification(c, v)
    \/ \E op \in {"accept", "confirm", "cancel"} : VerificationButton(op)
    \/ \E c \in BagToSet(cmds) : VerificationAnswered(c)
    \/ \E c \in BagToSet(cmds) : VerificationCancelled(c)
    \/ \E c \in BagToSet(cmds) : ErrorMessage(c)
    \/ VerificationClose
    \/ OpenSettings
    \/ \E c \in BagToSet(cmds) : \E name \in {"blank", "named"} :
          SetDisplayNameInput(c, name)
    \/ CloseSettings

\* The stream of the runs that follow the side channels: both to-device
\* events, the leave of r1 and the name event of r2.
FeedSide ==
    {KeyVerificationStart, KeyVerificationCancel, SelfLeave("r1"), Name("r2")}

InitSide ==
    /\ screen = "AwaitLogin"
    /\ cmds = One(AuthCmd)
    /\ rooms = <<>>
    /\ selected = None
    /\ error = None
    /\ sync_token = ""
    /\ joined = {"r1"}
    /\ feed = FeedSide
    /\ panicked = FALSE
    /\ answered = <<>>
    /\ sas = None
    /\ settings_view = None
    /\ catalog = <<>>
    /\ buffer = DefaultBuffer
    /\ last = [op |-> "new", arg |-> <<>>, before |-> DefaultBuffer]

SpecSide == InitSide /\ [][NextSide]_vars

\* ------------------------------------------------------------------------
\* Properties of the buffer (checked under SpecBuf)
\* ------------------------------------------------------------------------
\* Number of stored entries that carry the id.
Count(s, id) == Cardinality({i \in 1..Len(s) : s[i].id = id})

\* The events the last call was given.
LastEvents == [i \in 1..Len(last.arg) |-> Event(last.arg[i])]

IsRelation(e) == e.kind \in {"edit", "redaction"}

\* C1. Ordering invariant: after any sequence of push and append calls from
\* the empty buffer, adjacent stored events have non-decreasing timestamps.
C1_OrderingInvariant == IsSorted(buffer.messages)

\* C1 witness: a push of an event older than the newest stored one, which the
\* sort had to move in front of it.
C1_Witness ==
    /\ last.op = "push"
    /\ Len(last.before.messages) > 0
    /\ LastEvents[1].ts < last.before.messages[Len(last.before.messages)].ts
    /\ Count(buffer.messages, last.arg[1]) > 0

\* C2. No-duplicate invariant: no two stored events share an id.
C2_NoDuplicateIds ==
    \A i, j \in 1..Len(buffer.messages) :
        buffer.messages[i].id = buffer.messages[j].id => i = j

\* C3. Known-id mirror invariant: known_ids is exactly the set of ids of the
\* stored events.
C3_KnownIdMirror == buffer.known_ids = Ids(buffer.messages)

\* C4. The buffer never holds both an event and a different event that edits
\* or redacts it.
C4_NeverOriginalAndSuccessor ==
    \A i, j \in 1..Len(buffer.messages) :
        (/\ IsRelation(buffer.messages[j])
         /\ buffer.messages[j].target = buffer.messages[i].id)
            => buffer.messages[j].id = buffer.messages[i].id

\* The case of C5 and C6: the last call pushed an event of this kind whose
\* target is another event, stored when the call was made.
PushedOnStoredTarget(kind) ==
    /\ last.op = "push"
    /\ LastEvents[1].kind = kind
    /\ LastEvents[1].target # LastEvents[1].id
    /\ LastEvents[1].target \in Ids(last.before.messages)

\* C5. Edit replaces target: pushing an edit of a stored event A leaves A
\* absent from the events and from known_ids, the edit present and the number
\* of stored events unchanged.
C5_EditReplacesTarget ==
    PushedOnStoredTarget("edit") =>
        /\ LastEvents[1].target \notin Ids(buffer.messages)
        /\ LastEvents[1].target \notin buffer.known_ids
        /\ LastEvents[1].id \in Ids(buffer.messages)
        /\ Len(buffer.messages) = Len(last.before.messages)

\* C6. Redaction removes target: pushing a redaction of a stored event B
\* leaves B absent from the events and from known_ids and the redaction stored.
C6_RedactionRemovesTarget ==
    PushedOnStoredTarget("redaction") =>
        /\ LastEvents[1].target \notin Ids(buffer.messages)
        /\ LastEvents[1].target \notin buffer.known_ids
        /\ LastEvents[1].id \in Ids(buffer.messages)

\* C6 witness: a redaction was pushed onto a buffer that held its target and
\* other events besides.
C6_Witness ==
    /\ PushedOnStoredTarget("redaction")
    /\ LastEvents[1].target \in last.before.known_ids
    /\ LastEvents[1].target \notin Ids(buffer.messages)
    /\ Len(buffer.messages) > 0

\* Same contents: the same events up to the order among events of one
\* timestamp (which the sort leaves open), the same known_ids, the same time
\* of last activity.
SameStore(b1, b2) ==
    /\ \A id \in EventIds : Count(b1.messages, id) = Count(b2.messages, id)
    /\ b1.known_ids = b2.known_ids
    /\ b1.updated = b2.updated

\* C7. Dedup idempotence: appending a batch a second time changes nothing that
\* appending it once has not already done.
C7_DedupIdempotence ==
    [][(/\ last.op = "append"
        /\ last'.op = "append"
        /\ last'.arg = last.arg) => SameStore(buffer', buffer)]_vars

\* The case of C8: the last call was given edits and redactions only, none of
\* whose targets was stored.
MissingTargetsOnly ==
    /\ last.op \in {"push", "append"}
    /\ last.arg # <<>>
    /\ \A i \in 1..Len(last.arg) :
        /\ IsRelation(LastEvents[i])
        /\ LastEvents[i].target \notin Ids(last.before.messages)

\* C8. Missing-target edit/redaction: the call removes nothing, every event
\* stored before is still stored, and the edits/redactions are stored.
C8_MissingTargetKeepsAll ==
    MissingTargetsOnly =>
        /\ \A id \in EventIds :
            Count(buffer.messages, id) >= Count(last.before.messages, id)
        /\ \A i \in 1..Len(last.arg) : last.arg[i] \in Ids(buffer.messages)

\* C8 witness: an edit of an event that is not stored was pushed onto a buffer
\* that held another event; both are stored afterwards.
C8_Witness ==
    /\ MissingTargetsOnly
    /\ last.op = "push"
    /\ Len(last.before.messages) > 0
    /\ Len(buffer.messages) = Len(last.before.messages) + 1

\* C8 witness for append: a batch of two relations with missing targets.
C8_WitnessAppend ==
    /\ MissingTargetsOnly
    /\ last.op = "append"
    /\ Len(last.arg) = 2
    /\ Len(last.before.messages) > 0
    /\ Len(buffer.messages) > Len(last.before.messages)

\* ------------------------------------------------------------------------
\* Properties of the application (checked under Spec)
\* ------------------------------------------------------------------------
\* C9. At most one backward-pagination request per room is outstanding at any
\* time.
C9_OneRequestPerRoom == \A r \in Rooms : Outstanding(r) <= 1

\* C10. When a pagination request for a room fails, the room's loading flag
\* is false afterwards and its start and end cursors are as before.
C10_FailureClearsLoading ==
    [][\A c \in BagToSet(cmds) :
         (BackFillFailed(c) /\ c.room \in DOMAIN rooms) =>
            /\ c.room \in DOMAIN rooms'
            /\ ~rooms'[c.room].messages.loading
            /\ rooms'[c.room].messages.start = rooms[c.room].messages.start
            /\ rooms'[c.room].messages.end = rooms[c.room].messages.end]_vars

\* ------------------------------------------------------------------------
\* Properties of pagination and of the dispatcher
\* ------------------------------------------------------------------------
\* C11. Exhausted rooms are never paginated: no step issues a backward
\* pagination request for a room whose store holds the room-create event.
C11_ExhaustedNeverPaginated ==
    [][\A r \in Rooms :
         (r \in DOMAIN rooms /\ has_beginning(rooms[r].messages)) =>
            Outstanding(r)' <= Outstanding(r)]_vars

\* The pagination requests for the room that the step issues.
NewRequests(r) ==
    {c \in BagToSet(cmds') :
       c.type = "Request" /\ c.room = r /\ CopiesIn(c, cmds') > CopiesIn(c, cmds)}

\* C12. Cursor freshness: the token of a backward request for a room is the
\* room's stored end cursor if there is one, else the fallback of the SDK or
\* the sync token; and once a response carrying an end cursor was handled for
\* the room, every request issued later carries the latest such cursor.
C12_CursorFreshness ==
    [][\A r \in DOMAIN answered : \A c \in NewRequests(r) :
         /\ IF r \in DOMAIN rooms /\ rooms[r].messages.end # None
            THEN c.token = rooms[r].messages.end
            ELSE c.token = IF last_prev_batch(r) # None
                           THEN last_prev_batch(r) ELSE sync_token
         /\ answered[r].end # None => c.token = answered[r].end]_vars

\* The events of a response that deserialize: its chunk, then its state.
ResponseEvents(response) ==
    SelectSeq(response.chunk, LAMBDA e : e.kind # "malformed")
      \o SelectSeq(response.state, LAMBDA e : e.kind # "malformed")

\* The step handles the response to the request for a registered room.
Answers(c, response) ==
    /\ c.type = "Request"
    /\ c.room \in DOMAIN rooms
    /\ response \in Responses(c.room)
    /\ BackFilled(c, response)

\* C13. Handling a pagination response for a registered room appends the
\* chunk events followed by the state events to the room's store, sets
\* loading to false, and sets each cursor the response carries while leaving
\* a cursor it omits as it was.
C13_ResponseProcessing ==
    [][\A c \in Pending("Request") : \A response \in Responses(c.room) :
         Answers(c, response) =>
            LET old == rooms[c.room].messages
                new == rooms'[c.room].messages
            IN  /\ \E b \in append(old, ResponseEvents(response)) :
                     /\ new.messages = b.messages
                     /\ new.known_ids = b.known_ids
                     /\ new.updated = b.updated
                /\ ~new.loading
                /\ new.start = IF response.start # None
                               THEN response.start ELSE old.start
                /\ new.end = IF response.end # None
                             THEN response.end ELSE old.end]_vars

\* A response was handled for r1 that carried an end cursor and no start
\* cursor: the store holds its chunk, not loading, with the end cursor set and
\* the start cursor still absent.
C13_Witness ==
    /\ "r1" \in DOMAIN rooms
    /\ answered["r1"].done
    /\ rooms["r1"].messages.end = "t1"
    /\ rooms["r1"].messages.start = None
    /\ ~rooms["r1"].messages.loading
    /\ Ids(rooms["r1"].messages.messages) = {<<"r1", "m1">>, <<"r1", "m2">>}

\* C14. Stale-selection tolerance: a response that arrives for a registered
\* room while another room (or none) is selected is still merged into the
\* room's store, and handling it changes neither the selection nor the entry
\* of any other room.
C14_StaleSelectionTolerance ==
    [][\A c \in Pending("Request") : \A response \in Responses(c.room) :
         (selected # c.room /\ Answers(c, response)) =>
            /\ \E b \in append(rooms[c.room].messages, ResponseEvents(response)) :
                 rooms'[c.room].messages.messages = b.messages
            /\ selected' = selected
            /\ DOMAIN rooms' = DOMAIN rooms
            /\ \A r \in DOMAIN rooms \ {c.room} : rooms'[r] = rooms[r]]_vars

\* The last response for r1 was handled while r2 was selected, and r1's store
\* holds events of it.
C14_Witness ==
    /\ answered["r1"].done
    /\ answered["r1"].selected = "r2"
    /\ selected = "r2"
    /\ {"r1", "r2"} \subseteq DOMAIN rooms
    /\ <<"r1", "m1">> \in Ids(rooms["r1"].messages.messages)

IsSelfLeave(e) == e.kind = "member" /\ e.arg = "self leave"
IsSelfJoin(e) == e.kind = "member" /\ e.arg = "self join"

\* C15. Leave removes room: handling a member event of the local user with
\* membership leave leaves the room absent from the registry, whether or not
\* it was there; the selection becomes none if it was that room and is
\* unchanged otherwise.
C15_LeaveRemovesRoom ==
    [][\A e \in feed :
         (IsSelfLeave(e) /\ SyncRoomEvent(e)) =>
            /\ e.room \notin DOMAIN rooms'
            /\ selected' = IF selected = e.room THEN None ELSE selected]_vars

\* The leave of r1 was handled: r1 is gone and r2 is still selected.
C15_Witness ==
    /\ Running
    /\ SelfLeave("r1") \notin feed
    /\ "r1" \notin DOMAIN rooms
    /\ selected = "r2"

\* C16. No message is fatal: a pagination response for a room that a leave
\* removed from the registry while the request was outstanding is handled
\* without aborting update.
C16_LateResponseNotFatal ==
    [][\A c \in Pending("Request") : \A response \in Responses(c.room) :
         (c.room \notin DOMAIN rooms /\ BackFilled(c, response)) =>
            ~panicked']_vars

\* C17. Selecting a room that is not in the registry (through "Go to older
\* version" or "Go to upgraded room") creates a default entry for it and
\* sets the selection, rather than failing.
C17_SelectCreatesEntry ==
    [][\A r \in Rooms :
         (r \notin DOMAIN rooms /\ SelectRoom(r)) =>
            /\ ~panicked'
            /\ selected' = r
            /\ r \in DOMAIN rooms']_vars

\* The step handles the live event of a room the registry does not hold, and
\* leaves the room with a default entry whose store holds the event alone.
StoredOnDemand(e) ==
    /\ e.room \in DOMAIN rooms'
    /\ rooms'[e.room].messages.messages = <<e>>
    /\ rooms'[e.room].messages.known_ids = {e.id}
    /\ rooms'[e.room].name = DefaultEntry.name
    /\ rooms'[e.room].topic = DefaultEntry.topic
    /\ \A r \in DOMAIN rooms : r \in DOMAIN rooms' /\ rooms'[r] = rooms[r]

\* C18 as stated: every live message, redacted message, redacted state event
\* or state event other than create, for a room the registry does not hold,
\* creates a default entry and is stored in it.
C18_AnyNonCreateStored ==
    [][\A e \in feed :
         (e.room \notin DOMAIN rooms /\ e.kind # "create" /\ SyncRoomEvent(e))
            => StoredOnDemand(e)]_vars

\* C18, amended: the same for every such event except the local user's own
\* join and leave member events, which reset and remove the entry instead.
C18_DispatcherTolerance ==
    [][\A e \in feed :
         (/\ e.room \notin DOMAIN rooms
          /\ e.kind # "create"
          /\ ~IsSelfJoin(e)
          /\ ~IsSelfLeave(e)
          /\ SyncRoomEvent(e)) => StoredOnDemand(e)]_vars

\* r2 was registered by a live redacted state event: a default entry (no
\* snapshot name) whose store holds that event.
C18_Witness ==
    /\ Running
    /\ "r2" \in DOMAIN rooms
    /\ rooms["r2"].name = ""
    /\ rooms["r2"].messages.messages = <<RedactedState("r2")>>

\* C19. Session life cycle: the top-level state changes only from Prompt to
\* AwaitLogin, with one authentication request issued, from AwaitLogin to
\* LoggedIn, and from AwaitLogin to Prompt with the error attached; every
\* other step leaves it as it is.
C19_LifecycleTransitions ==
    [][\/ screen' = screen
       \/ /\ screen = "Prompt"
          /\ screen' = "AwaitLogin"
          /\ cmds' = cmds (+) One(AuthCmd)
          /\ CopiesIn(AuthCmd, cmds') = 1
       \/ /\ screen = "AwaitLogin"
          /\ screen' = "LoggedIn"
       \/ /\ screen = "AwaitLogin"
          /\ screen' = "Prompt"
          /\ error' # None]_vars

\* A restored session failed, the prompt showed the error and a login was
\* submitted: its request is the one in flight.
C19_Witness ==
    /\ screen = "AwaitLogin"
    /\ error # None
    /\ cmds = One(AuthCmd)

\* C20. LoggedIn is terminal: once the top-level state is LoggedIn it stays
\* LoggedIn, no authentication result is left to arrive, and the registry is
\* never replaced by a fresh one: a registered room leaves it only through
\* the local user's leave.
C20_LoggedInTerminal ==
    [][screen = "LoggedIn" =>
         /\ screen' = "LoggedIn"
         /\ ~BagIn(AuthCmd, cmds')
         /\ \A r \in DOMAIN rooms :
              \/ r \in DOMAIN rooms'
              \/ \E e \in feed \ feed' : IsSelfLeave(e) /\ e.room = r]_vars

\* Logged in, with everything the stream had delivered and r1 registered
\* with its history.
C20_Witness ==
    /\ screen = "LoggedIn"
    /\ feed = {}
    /\ "r1" \in DOMAIN rooms
    /\ rooms["r1"].messages.messages # <<>>

\* ------------------------------------------------------------------------
\* Properties of the session, the store and the state-event rules
\* ------------------------------------------------------------------------
\* C21. At most one authentication attempt is in flight at any time, from
\* the start of the program on, and exactly one whenever the top-level state
\* is AwaitLogin.
C21_OneAuthAttempt ==
    /\ CopiesIn(AuthCmd, cmds) <= 1
    /\ screen = "AwaitLogin" <=> CopiesIn(AuthCmd, cmds) = 1

\* The attempt of a login submitted after the restore of the saved session
\* failed is the only command in flight.
C21_Witness ==
    /\ screen = "AwaitLogin"
    /\ error = "error"
    /\ BagCardinality(cmds) = 1
    /\ CopiesIn(AuthCmd, cmds) = 1

\* The number of room-create state events a store holds.
Creates(s) == Cardinality({i \in 1..Len(s) : s[i].kind = "create"})

\* C22. has_beginning correctness: for every store of the registry,
\* has_beginning() is true if and only if the store holds a room-create
\* state event; an event of any other kind, a redacted state event
\* included, does not count.
C22_HasBeginning ==
    \A r \in DOMAIN rooms :
       has_beginning(rooms[r].messages) <=> Creates(rooms[r].messages.messages) > 0

\* r1's store holds the create event a pagination response brought and
\* r2's store holds a redacted state event and no create event.
C22_Witness ==
    /\ {"r1", "r2"} \subseteq DOMAIN rooms
    /\ Creates(rooms["r1"].messages.messages) = 1
    /\ has_beginning(rooms["r1"].messages)
    /\ RedactedState("r2") \in
         {rooms["r2"].messages.messages[i] :
            i \in 1..Len(rooms["r2"].messages.messages)}
    /\ ~has_beginning(rooms["r2"].messages)

\* The greatest timestamp among the events, the epoch for none.
MaxTimestamp(s) ==
    IF s = <<>> THEN UNIX_EPOCH
    ELSE CHOOSE t \in {s[i].ts : i \in 1..Len(s)} :
           \A i \in 1..Len(s) : s[i].ts <= t

\* C23. Last-activity invariant: after any sequence of push and append
\* calls, updated is the greatest timestamp among the stored events, or the
\* epoch when the store is empty, also when an edit or a redaction removed
\* the latest event.
C23_LastActivity == buffer.updated = MaxTimestamp(buffer.messages)

\* The push of an edit or redaction removed the latest event, and the
\* last-activity time went back to the time of the relation event.
C23_Witness ==
    /\ last.op = "push"
    /\ IsRelation(Event(last.arg[1]))
    /\ buffer.updated < last.before.updated
    /\ buffer.updated = MaxTimestamp(buffer.messages)
    /\ UNIX_EPOCH < buffer.updated

\* The sequence a stable sort by timestamp gives when e arrives at the end
\* of the sorted sequence s: e goes after every event that is not later.
StableInsert(s, e) ==
    LET k == Cardinality({i \in 1..Len(s) : s[i].ts <= e.ts})
    IN  SubSeq(s, 1, k) \o <<e>> \o SubSeq(s, k + 1, Len(s))

\* C24. Stable tie-breaking: events with equal timestamps are held in their
\* order of arrival; after a push the stored events keep their order and the
\* pushed event stands after every stored event of the same timestamp.
C24_StableTieBreaking ==
    last.op = "push" =>
       buffer.messages =
          StableInsert(RemoveTarget(last.before, Event(last.arg[1])).messages,
                       Event(last.arg[1]))

\* C25. Handling a live avatar state event records the avatar reference it
\* carries in the entry of its room.
C25_AvatarRecorded ==
    [][\A e \in feed :
         (e.kind = "avatar" /\ SyncRoomEvent(e)) =>
            /\ e.room \in DOMAIN rooms'
            /\ rooms'[e.room].avatar # None
            /\ rooms'[e.room].avatar = e.arg]_vars

\* Two metadata values, or two entries, are the same.
Same(x, y) == x = y

\* The entry the handler starts from: the room's, or the default one.
EntryOf(r) == IF r \in DOMAIN rooms THEN rooms[r] ELSE DefaultEntry

\* The step stores the event in the room's store: one more entry, the ids as
\* before plus the event's, cursors and loading flag as they were; and no
\* other room's entry changes.
AppendedTo(old, new, e) ==
    /\ Len(new.messages.messages) = Len(old.messages.messages) + 1
    /\ Ids(new.messages.messages) = Ids(old.messages.messages) \cup {e.id}
    /\ \E i \in 1..Len(new.messages.messages) : new.messages.messages[i] = e
    /\ new.messages.start = old.messages.start
    /\ new.messages.end = old.messages.end
    /\ new.messages.loading = old.messages.loading
    /\ \A r \in DOMAIN rooms \ {e.room} :
         r \in DOMAIN rooms' /\ rooms'[r] = rooms[r]

\* C26. State-event metadata rules: a topic event sets the topic, a
\* canonical-alias event the alias and a name event the explicit display
\* name of the entry of its room; each changes no other metadata field and
\* appends the event to the room's store.
C26_MetadataRules ==
    [][\A e \in feed :
         (e.kind \in {"topic", "alias", "name"} /\ SyncRoomEvent(e)) =>
            /\ e.room \in DOMAIN rooms'
            /\ LET old == EntryOf(e.room)
                   new == rooms'[e.room]
               IN  /\ Same(new.topic, IF e.kind = "topic" THEN e.arg ELSE old.topic)
                   /\ Same(new.alias, IF e.kind = "alias" THEN e.arg ELSE old.alias)
                   /\ Same(new.display_name,
                           IF e.kind = "name" THEN e.arg ELSE old.display_name)
                   /\ Same(new.name, old.name)
                   /\ Same(new.avatar, old.avatar)
                   /\ Same(new.direct, old.direct)
                   /\ AppendedTo(old, new, e)]_vars

\* The topic, alias and name events of r2 were handled: its entry carries
\* the three values and its store the three events.
C26_Witness ==
    /\ "r2" \in DOMAIN rooms
    /\ Same(rooms["r2"].topic, Topic("r2").arg)
    /\ Same(rooms["r2"].alias, Alias("r2").arg)
    /\ Same(rooms["r2"].display_name, Name("r2").arg)
    /\ {Topic("r2").id, Alias("r2").id, Name("r2").id}
         \subseteq Ids(rooms["r2"].messages.messages)


\* C27. A state event other than name, topic, canonical-alias, avatar,
\* create and member makes sure the entry of its room exists and appends the
\* event to its store; name, topic, alias, explicit display name, direct
\* peer, avatar, cursors and loading flag of the entry stay as they were.
C27_OtherStateFrame ==
    [][\A e \in feed :
         (e.kind = "state" /\ SyncRoomEvent(e)) =>
            /\ e.room \in DOMAIN rooms'
            /\ LET old == EntryOf(e.room)
                   new == rooms'[e.room]
               IN  /\ Same(new.name, old.name)
                   /\ Same(new.topic, old.topic)
                   /\ Same(new.alias, old.alias)
                   /\ Same(new.display_name, old.display_name)
                   /\ Same(new.direct, old.direct)
                   /\ Same(new.avatar, old.avatar)
                   /\ AppendedTo(old, new, e)]_vars

\* The other state event of r2 was handled after its topic event: the store
\* holds both and the entry still carries the topic.
C27_Witness ==
    /\ "r2" \in DOMAIN rooms
    /\ OtherState("r2") \notin feed
    /\ \E i \in 1..Len(rooms["r2"].messages.messages) :
         rooms["r2"].messages.messages[i] = OtherState("r2")
    /\ Same(rooms["r2"].topic, Topic("r2").arg)


\* The outcomes of handling event a and then event b.
Both(rs, sel, a, b) ==
    UNION {Dispatched(d.rooms, d.selected, b) : d \in Dispatched(rs, sel, a)}

\* The events the stream still holds whose handler does not panic.
Deliverable == {e \in feed : ~(e.kind = "create" /\ e.room \notin JoinedAfter(e))}

\* C28. Cross-room order independence: for live events e1 and e2 of
\* different rooms, handling e1 then e2 gives the same registry and
\* selection as handling e2 then e1, and handling an event of one room
\* leaves the entry of every other room as it was.
C28_CrossRoomOrder ==
    Running =>
      /\ \A e1 \in Deliverable : \A e2 \in Deliverable :
           e1.room # e2.room =>
             Both(rooms, selected, e1, e2) = Both(rooms, selected, e2, e1)
      /\ \A e \in Deliverable : \A d \in Dispatched(rooms, selected, e) :
           /\ DOMAIN d.rooms \ {e.room} = DOMAIN rooms \ {e.room}
           /\ \A r \in DOMAIN rooms \ {e.room} : d.rooms[r] = rooms[r]

\* Events of both rooms were handled, r1 is selected, and the stream still
\* holds r1's leave (which clears the selection) and an event of r2.
C28_Witness ==
    /\ Running
    /\ selected = "r1"
    /\ {"r1", "r2"} \subseteq DOMAIN rooms
    /\ Name("r1").id \in Ids(rooms["r1"].messages.messages)
    /\ Message1("r2").id \in Ids(rooms["r2"].messages.messages)
    /\ SelfLeave("r1") \in feed
    /\ Topic("r2") \in feed


\* The registry with the loading flag of the room lowered.
Quiet(r) == [rooms EXCEPT ![r].messages.loading = FALSE]

\* The step handled the event the way it is handled with the flag lowered,
\* and left the loading flag and the cursors of the room alone.
StoredAsQuiet(e) ==
    /\ e.room \in DOMAIN rooms'
    /\ rooms'[e.room].messages.loading = rooms[e.room].messages.loading
    /\ rooms'[e.room].messages.start = rooms[e.room].messages.start
    /\ rooms'[e.room].messages.end = rooms[e.room].messages.end
    /\ \E d \in Dispatched(Quiet(e.room), selected, e) :
         Same([rooms'[e.room] EXCEPT !.messages.loading = FALSE], d.rooms[e.room])

\* A live event of a room whose loading flag is raised is being handled.
LiveWhileLoading(e) ==
    /\ e.room \in DOMAIN rooms
    /\ rooms[e.room].messages.loading
    /\ SyncRoomEvent(e)

\* C29 as stated: every live event of room R handled while R's loading flag
\* is true is stored exactly as with the flag false, and leaves the loading
\* flag and the cursors of R unchanged.
C29_AnyLiveEventWhileLoading ==
    [][\A e \in feed : LiveWhileLoading(e) => StoredAsQuiet(e)]_vars

\* C29. Live events are not blocked by an outstanding backfill: a live
\* event of room R, other than the local user's own leave, handled while
\* R's loading flag is true is stored exactly as with the flag false, and
\* leaves the loading flag and the cursors of R unchanged.
C29_LiveNotBlocked ==
    [][\A e \in feed :
         (LiveWhileLoading(e) /\ ~IsSelfLeave(e)) => StoredAsQuiet(e)]_vars

\* The name event of r1 is in r1's store while r1 is loading and the
\* request has not been answered.
C29_Witness ==
    /\ "r1" \in DOMAIN rooms
    /\ rooms["r1"].messages.loading
    /\ Outstanding("r1") > 0
    /\ Name("r1") \notin feed
    /\ \E i \in 1..Len(rooms["r1"].messages.messages) :
         rooms["r1"].messages.messages[i] = Name("r1")


\* C30. Loading-state invariant: in every reachable state, the loading flag
\* of every room of the registry is true if and only if a pagination
\* request for the room is outstanding (issued, not answered, not failed).
C30_LoadingIffOutstanding ==
    \A r \in DOMAIN rooms : rooms[r].messages.loading <=> Outstanding(r) > 0


\* C31. A room id leaves the registry only by the local user's own leave:
\* every step after which a registered room is absent is the handling of a
\* self-membership leave event of that room.
C31_OnlyLeaveRemoves ==
    [][\A r \in DOMAIN rooms :
         r \notin DOMAIN rooms' =>
            \E e \in feed : IsSelfLeave(e) /\ e.room = r /\ SyncRoomEvent(e)]_vars

\* r1 is gone after its leave, r2 is still registered, and messages of the
\* other kinds (a verification flow set, an error shown) were handled.
C31_Witness ==
    /\ Running
    /\ SelfLeave("r1") \notin feed
    /\ "r1" \notin DOMAIN rooms
    /\ "r2" \in DOMAIN rooms
    /\ sas # None
    /\ error # None


\* Some raw event of the response does not deserialize.
HasMalformed(response) ==
    \/ \E i \in 1..Len(response.chunk) : response.chunk[i].kind = "malformed"
    \/ \E i \in 1..Len(response.state) : response.state[i].kind = "malformed"

\* C32. Malformed events of a pagination response are dropped one by one:
\* when raw events of the chunk or of the state list fail to parse, the
\* merge goes on and the store gains exactly the events that parse and were
\* not known.
C32_MalformedDropped ==
    [][\A c \in Pending("Request") : \A response \in Responses(c.room) :
         (Answers(c, response) /\ HasMalformed(response)) =>
            LET old == rooms[c.room].messages
                new == rooms'[c.room].messages
                added == SelectSeq(ResponseEvents(response),
                                   LAMBDA e : e.id \notin old.known_ids)
            IN  /\ ~panicked'
                /\ ~new.loading
                /\ Len(new.messages) = Len(old.messages) + Len(added)
                /\ Ids(new.messages) = Ids(old.messages) \cup Ids(added)
                /\ new.known_ids = old.known_ids \cup Ids(added)
                /\ \A i \in 1..Len(new.messages) :
                     new.messages[i].kind # "malformed"]_vars

\* The response of r1 with a malformed event in its chunk and in its state
\* list was handled: the store holds the message and the create event it
\* carried, and its start cursor.
C32_Witness ==
    /\ "r1" \in DOMAIN rooms
    /\ answered["r1"].done
    /\ rooms["r1"].messages.start = "t1"
    /\ ~rooms["r1"].messages.loading
    /\ {Message1("r1").id, Create("r1").id}
         \subseteq Ids(rooms["r1"].messages.messages)


\* The events of the ids in ascending order of timestamp (the timestamps of
\* SpecOrder are pairwise distinct).
Ascending(ids) ==
    CHOOSE s \in [1..Cardinality(ids) -> {Event(i) : i \in ids}] :
       /\ \A i \in 1..Len(s) : \A j \in 1..Len(s) : i < j => s[i].ts < s[j].ts

\* C33. Arrival-order independence of the timeline: events with pairwise
\* distinct ids and timestamps and no relations, pushed in any order, leave
\* the same sequence, the events pushed in ascending order of timestamp.
C33_ArrivalOrderIndependence ==
    /\ Cardinality(buffer.known_ids) = Len(buffer.messages)
    /\ buffer.messages = Ascending(buffer.known_ids)

\* Three events were pushed and the one pushed last is the earliest: it
\* stands first in the store.
C33_Witness ==
    /\ last.op = "push"
    /\ Len(buffer.messages) = 3
    /\ buffer.messages[1].id = last.arg[1]
    /\ buffer.messages[1].ts < buffer.messages[2].ts
    /\ buffer.messages[2].ts < buffer.messages[3].ts


\* The step handles a to-device event or a verification message.
VerificationStep ==
    \/ \E e \in feed : SyncToDevice(e)
    \/ \E c \in BagToSet(cmds) : \E v \in {None, "sas"} : SetVerification(c, v)
    \/ \E op \in {"accept", "confirm", "cancel"} : VerificationButton(op)
    \/ \E c \in BagToSet(cmds) : VerificationAnswered(c)
    \/ \E c \in BagToSet(cmds) : VerificationCancelled(c)
    \/ VerificationClose

\* C34. The verification side channel is independent of the registry:
\* handling a to-device event or a verification message leaves the
\* registry, every room's store and the selection as they were.
C34_VerificationFrame ==
    [][VerificationStep => rooms' = rooms /\ selected' = selected]_vars

\* A verification flow is set and the cancel event of the other device is
\* consumed, while r1 is selected and its store holds events.
C34_Witness ==
    /\ Running
    /\ sas # None
    /\ KeyVerificationCancel \notin feed
    /\ KeyVerificationStart \notin feed
    /\ selected = "r1"
    /\ "r1" \in DOMAIN rooms
    /\ rooms["r1"].messages.messages # <<>>


\* The buffers that pushing the events one by one, in order, can leave.
RECURSIVE PushAll(_, _)
PushAll(buf, events) ==
    IF events = <<>> THEN {buf}
    ELSE UNION {PushAll(b, Tail(events)) : b \in push(buf, Head(events))}

\* The batch of the last call: ids pairwise distinct, none known before.
FreshBatch ==
    /\ \A i \in 1..Len(last.arg) : \A j \in 1..Len(last.arg) :
         i # j => last.arg[i] # last.arg[j]
    /\ \A i \in 1..Len(last.arg) : last.arg[i] \notin last.before.known_ids

\* C35. Bulk merge agrees with sequential insertion: append of a batch with
\* pairwise distinct ids, none of them known, leaves the stored events and
\* known_ids that pushing the batch's events one by one in order leaves,
\* also when an edit or redaction of the batch targets an event of the batch.
C35_AppendAgreesWithPush ==
    (last.op = "append" /\ FreshBatch) =>
       \E b \in PushAll(last.before, LastEvents) :
          /\ \A id \in EventIds :
               Count(b.messages, id) = Count(buffer.messages, id)
          /\ b.known_ids = buffer.known_ids


\* C36. Selecting a registered room asks for a page of older messages if
\* and only if the room's store is empty; selecting a room whose store is
\* not empty only sets the selection and leaves store, cursors and loading
\* flag as they were.
C36_SelectBackfillsIffEmpty ==
    [][\A r \in DOMAIN rooms :
         SelectRoom(r) =>
            /\ selected' = r
            /\ rooms' = rooms
            /\ cmds' = IF rooms[r].messages.messages = <<>>
                       THEN cmds (+) One(BackFillCmd(r))
                       ELSE cmds]_vars

\* r2 was selected with events in its store: no request for it is asked or
\* outstanding and it is not loading; r1 was selected before with an empty
\* store, which added a request to the one of its snapshot.
C36_Witness ==
    /\ Running
    /\ selected = "r2"
    /\ {"r1", "r2"} \subseteq DOMAIN rooms
    /\ rooms["r2"].messages.messages # <<>>
    /\ ~rooms["r2"].messages.loading
    /\ \A c \in BagToSet(cmds) : c.room = "r1"
    /\ rooms["r1"].messages.messages = <<>>
    /\ CopiesIn(BackFillCmd("r1"), cmds) = 2


\* The step removes the stored event of the id as the target of an edit or
\* a redaction that the stream delivers.
RemovedAsTarget(r, id) ==
    \E e \in feed :
       /\ e.kind \in {"edit", "redaction"}
       /\ e.room = r
       /\ e.target = id
       /\ SyncRoomEvent(e)

\* C37. Stored events are not lost: an event in the store of room R stays
\* there over every later message, unless it is removed as the target of an
\* edit or redaction or R is removed by the local user's own leave; and a
\* ResetRoom for R keeps the events, cursors and loading flag R holds.
C37_StoredEventsKept ==
    [][\A r \in DOMAIN rooms :
         /\ r \notin DOMAIN rooms' =>
               \E e \in feed : IsSelfLeave(e) /\ e.room = r /\ SyncRoomEvent(e)
         /\ r \in DOMAIN rooms' =>
               \A id \in Ids(rooms[r].messages.messages) :
                  \/ id \in Ids(rooms'[r].messages.messages)
                  \/ RemovedAsTarget(r, id)
         /\ \A c \in Pending("ResetRoom") :
               (c.room = r /\ ResetRoom(c)) =>
                  /\ rooms'[r].messages.start = rooms[r].messages.start
                  /\ rooms'[r].messages.end = rooms[r].messages.end
                  /\ rooms'[r].messages.loading = rooms[r].messages.loading]_vars


\* The rooms whose leave by the local user the stream has delivered.
LeftRooms == {r \in Rooms : SelfLeave(r) \in FeedPaginate /\ SelfLeave(r) \notin feed}

\* C38. Leave is not undone by stale results: once the local user's own
\* leave of room R is handled, R stays out of the registry until a new live
\* event of R arrives; a ResetRoom or BackFill for R that was in flight when
\* the leave was handled does not create R's entry again.
C38_LeaveNotUndone ==
    [][\A r \in LeftRooms :
         (r \notin DOMAIN rooms /\ r \in DOMAIN rooms') =>
            \E e \in feed : e.room = r /\ SyncRoomEvent(e)]_vars


\* C39. A member event whose state key is not the local user, or whose
\* membership is neither join nor leave, removes no room from the registry,
\* leaves the selection as it was, and is appended to the store of its room.
C39_OtherMemberStored ==
    [][\A e \in feed :
         (/\ e.kind = "member"
          /\ ~IsSelfJoin(e)
          /\ ~IsSelfLeave(e)
          /\ SyncRoomEvent(e)) =>
            /\ DOMAIN rooms \subseteq DOMAIN rooms'
            /\ selected' = selected
            /\ e.room \in DOMAIN rooms'
            /\ AppendedTo(EntryOf(e.room), rooms'[e.room], e)]_vars

\* With r1 selected, the leave of another member is in r1's store and the
\* ban of the local user in r2's.
C39_Witness ==
    /\ Running
    /\ selected = "r1"
    /\ {"r1", "r2"} \subseteq DOMAIN rooms
    /\ OtherLeave("r1").id \in Ids(rooms["r1"].messages.messages)
    /\ SelfBan("r2").id \in Ids(rooms["r2"].messages.messages)


\* The ResetRoom commands in flight for the room.
Snapshots(bag, r) ==
    LET cs == {c \in BagToSet(bag) : c.type = "ResetRoom" /\ c.room = r}
    IN  IF cs = {} THEN 0 ELSE BagCardinality([c \in cs |-> CopiesIn(c, bag)])

\* C40. On successful login the registry starts empty and exactly one
\* snapshot fetch, yielding one ResetRoom, is issued for each room already
\* joined; each ResetRoom inserts the entry of its room and is followed by
\* exactly one backward-pagination request for that room.
C40_LoginSnapshots ==
    [][/\ LoggedIn =>
            /\ rooms' = <<>>
            /\ \A r \in Rooms : Snapshots(cmds', r) = IF r \in joined THEN 1 ELSE 0
       /\ \A c \in Pending("ResetRoom") :
            ResetRoom(c) =>
               /\ c.room \in DOMAIN rooms'
               /\ rooms'[c.room] = c.entry
               /\ cmds' = (cmds (-) One(c)) (+) One(BackFillCmd(c.room))
       /\ \A c \in Pending("BackFill") :
            BackFill(c) =>
               /\ ~panicked'
               /\ \E x \in BagToSet(cmds') :
                    /\ x.type = "Request"
                    /\ x.room = c.room
                    /\ cmds' = (cmds (-) One(c)) (+) One(x)]_vars

====
